---- MODULE Spec2Model ----
(***************************************************************************)
(* Multi-backend routing and repository layer of Plotter.                  *)
(*                                                                         *)
(* A repository (Project, Folder or Note) sits on a router that owns an    *)
(* ordered list of data sources and one routing strategy.  Every           *)
(* repository call is synchronous and single threaded, so each call is one *)
(* atomic step.  Between calls a data source may be switched off or on,    *)
(* and the strategy may be replaced or reconfigured.                       *)
(***************************************************************************)
EXTENDS Integers, Sequences, FiniteSets, TLC

\* ---------------------------------------------------------------- bounds
NumBackends == 2
NumValues == 2
MaxRetries == 2
MaxRequests == 3
MaxRegistered == 3
NumFolders == 2
NumNotes == 2
\* longest list of ids an entity is let to grow to
MaxListLen == 2
\* most repository updates that raise in one behaviour of the move use cases
MaxFaults == 1

Backends == 1..NumBackends
Values == 1..NumValues

\* A data source keys its map by entity id and no repository call reads or
\* writes the entry of another id: the model follows the entry of one id.
Ids == {1}

\* std::nullopt / "no entry in the map" and the null data source pointer
NoValue == 0
NullDs == 0

Kinds == {"Project", "Folder", "Note"}
StrategyKinds == {"none", "priority", "cacheFirst"}

\* SimpleCacheFirstStrategy::cacheTypes default
cacheTypes == {"Memory", "Cache"}

VARIABLES
    kind,                 \* entity kind of the repository under observation
    routerImpl,           \* which DataSourceRouter implementation is in use
    dataSources,          \* router: registered data sources, registration order
    dsName,               \* data source: getName()
    dsType,               \* data source: getType()
    dsPriority,           \* data source: getPriority()
    strategy,             \* router: active routing strategy
    writeThroughEnabled,  \* cache-first strategy: writeThroughEnabled
    available,            \* data source: available
    storage,              \* data source: storage (id -> entity value)
    last,                 \* observation of the last repository call
    acked,                \* latest value whose save/update returned normally
    ackedFull,            \* value whose save reached every registered source
    deleted,              \* deleteById returned true and no save since
    registered,           \* data sources handed to addDataSource and not removed
    metrics,              \* data source: metrics (request counters)
    defaultConfig,        \* use case: defaultConfig given to the constructor
    request,              \* use case: the request passed to execute
    actualConfig,         \* executeWithRetry: actualConfig
    attempt,              \* executeWithRetry: attempt
    ucPc,                 \* executeWithRetry: where the calling thread is
    task,                 \* executeWithTimeout: the std::async task
    invocations,          \* number of times the wrapped operation was started
    sleeps,               \* number of sleep_for(retryDelay) calls
    response,             \* the response execute returned
    projects,             \* project repository: number of saved projects
    progressReports,      \* executeWithRetry: the reports made to progressCallback
    folderRepository,     \* move use cases: the folders of the FolderRepository
    projectRepository,    \* move use cases: the projects of the ProjectRepository
    noteRepository,       \* move use cases: the notes of the NoteRepository
    moveResponse,         \* move use cases: the response of the last execute
    faults                \* move use cases: repository updates that raised

vars == <<kind, routerImpl, dataSources, dsName, dsType, dsPriority, strategy,
          writeThroughEnabled, available, storage, last, acked, ackedFull,
          deleted, registered, metrics, defaultConfig, request, actualConfig,
          attempt, ucPc, task, invocations, sleeps, response, projects,
          progressReports,
          folderRepository, projectRepository, noteRepository, moveResponse,
          faults>>

config == <<kind, routerImpl, dataSources, dsName, dsType, dsPriority>>
hist == <<acked, ackedFull, deleted>>
uc == <<defaultConfig, request, actualConfig, attempt, ucPc, task, invocations,
        sleeps, response, projects, progressReports>>
\* what the repository calls leave alone
tree == <<folderRepository, projectRepository, noteRepository, moveResponse,
          faults>>
beyond == <<registered, metrics, uc, tree>>

\* ------------------------------------------------------- sequence helpers
Range(s) == {s[i] : i \in 1..Len(s)}

RECURSIVE SeqFilter(_, _)
SeqFilter(s, keep) ==
    IF s = <<>> THEN <<>>
    ELSE IF Head(s) \in keep THEN <<Head(s)>> \o SeqFilter(Tail(s), keep)
    ELSE SeqFilter(Tail(s), keep)

\* ------------------------------------------------------------- backends
\* An invocation on a data source raises when the source is unavailable or
\* when the statement it runs fails (raises = the sources failing this call).
OpRaises(b, raises) == (~available[b]) \/ b \in raises

\* e.what() of the exception such an invocation raises
What(b) == IF available[b] THEN "Failed" ELSE "DataSource is not available"

\* variant: the write is taken back
DsSave_Undone(st, id, v) == st

DsSave(st, id, v) == [st EXCEPT ![id] = v]

DsFindById(st, id) == st[id]

\* findAll of a data source: every record it holds
DsFindAll(st) == {st[i] : i \in Ids} \ {NoValue}

DsDeleteByIdResult(st, id) == st[id] # NoValue

DsDeleteById(st, id) == [st EXCEPT ![id] = NoValue]

DsUpdateResult(st, id) == st[id] # NoValue

DsUpdate(st, id, v) == IF st[id] = NoValue THEN st ELSE [st EXCEPT ![id] = v]

\* exists() never raises: unavailable or failing sources answer false
DsExists(b, id, raises) ==
    IF OpRaises(b, raises) THEN FALSE ELSE storage[b][id] # NoValue

\* ------------------------------------------------------------ strategies
\* variant: a later source of equal priority counts as larger
LowerPriority_OrEqual(a, b) == dsPriority[a] <= dsPriority[b]

\* the comparison handed to std::max_element
LowerPriority(a, b) == dsPriority[a] < dsPriority[b]

\* std::max_element: the position of the largest entry from position i on,
\* `largest` being the largest before i; it moves only to a larger entry
RECURSIVE MaxElement(_, _, _)
MaxElement(srcs, i, largest) ==
    IF i > Len(srcs) THEN largest
    ELSE MaxElement(srcs, i + 1,
                    IF LowerPriority(srcs[largest], srcs[i]) THEN i ELSE largest)

PrioritySelectForRead(srcs) ==
    IF srcs = <<>> THEN NullDs
    ELSE srcs[MaxElement(srcs, 2, 1)]

PrioritySelectForWrite(srcs) == srcs

\* the loop over the sources: the first one of a cache type, if any
RECURSIVE FirstCache(_)
FirstCache(srcs) ==
    IF srcs = <<>> THEN NullDs
    ELSE IF dsType[Head(srcs)] \in cacheTypes THEN Head(srcs)
    ELSE FirstCache(Tail(srcs))

\* variant: no preference for cache types
CacheFirstSelectForRead_FirstAvailable(srcs) ==
    IF srcs = <<>> THEN NullDs ELSE srcs[1]

CacheFirstSelectForRead(srcs) ==
    IF srcs = <<>> THEN NullDs
    ELSE IF FirstCache(srcs) # NullDs THEN FirstCache(srcs)
    ELSE srcs[1]

\* variant: write-through whatever the flag
CacheFirstSelectForWrite_AlwaysAll(srcs) == srcs

CacheFirstSelectForWrite(srcs) ==
    IF ~writeThroughEnabled
    THEN SeqFilter(srcs, {b \in Backends : dsType[b] \notin cacheTypes})
    ELSE srcs

\* ---------------------------------------------------------------- router
getAllDataSources == dataSources

getAvailableDataSources == SeqFilter(dataSources, {b \in Backends : available[b]})

selectForRead ==
    LET avail == getAvailableDataSources IN
    IF avail = <<>> THEN NullDs
    ELSE IF strategy = "none" THEN avail[1]
    ELSE IF strategy = "priority" THEN PrioritySelectForRead(avail)
    ELSE CacheFirstSelectForRead(avail)

selectForWrite ==
    LET avail == getAvailableDataSources IN
    IF avail = <<>> THEN <<>>
    ELSE IF strategy = "none" THEN avail
    ELSE IF strategy = "priority" THEN PrioritySelectForWrite(avail)
    ELSE CacheFirstSelectForWrite(avail)

\* variant: only the first caught exception is reported
Errors_FirstOnly(invoked) ==
    [i \in 1..1 |-> [name |-> dsName[invoked[i]], message |-> What(invoked[i])]]

\* the errors stream after every source of `invoked` raised: one
\* "[name: message]" entry per caught exception, in invocation order
Errors(invoked) ==
    [i \in 1..Len(invoked) |-> [name |-> dsName[invoked[i]], message |-> What(invoked[i])]]

\* executeRead: the loop over the available sources, first answer wins
RECURSIVE ReadLoop(_, _, _)
ReadLoop(rest, raises, invoked) ==
    IF rest = <<>>
    THEN [status |-> "error", err |-> "All datasources failed",
          errors |-> Errors(invoked),
          invoked |-> invoked, servedBy |-> NullDs, succeeded |-> <<>>]
    ELSE IF OpRaises(Head(rest), raises)
         THEN ReadLoop(Tail(rest), raises, Append(invoked, Head(rest)))
         ELSE [status |-> "ok", err |-> "none", errors |-> <<>>,
               invoked |-> Append(invoked, Head(rest)),
               servedBy |-> Head(rest), succeeded |-> <<Head(rest)>>]

\* variant: the strategy's preferred source is tried first
executeRead_PreferredFirst(raises) ==
    LET avail == getAvailableDataSources
        order == <<selectForRead>> \o SeqFilter(avail, Backends \ {selectForRead})
    IN  IF avail = <<>>
        THEN [status |-> "error", err |-> "No available datasources for read operation",
              errors |-> <<>>,
              invoked |-> <<>>, servedBy |-> NullDs, succeeded |-> <<>>]
        ELSE ReadLoop(order, raises, <<>>)

\* variant: no failover, reads go to the first registered source only
executeRead_PrimaryOnly(raises) ==
    IF dataSources = <<>>
    THEN [status |-> "error", err |-> "No available datasources for read operation",
              errors |-> <<>>,
          invoked |-> <<>>, servedBy |-> NullDs, succeeded |-> <<>>]
    ELSE ReadLoop(<<dataSources[1]>>, raises, <<>>)

executeRead(raises) ==
    LET avail == getAvailableDataSources IN
    IF avail = <<>>
    THEN [status |-> "error", err |-> "No available datasources for read operation",
              errors |-> <<>>,
          invoked |-> <<>>, servedBy |-> NullDs, succeeded |-> <<>>]
    ELSE ReadLoop(avail, raises, <<>>)

\* executeWrite: the loop over the selected sources, every one is invoked
RECURSIVE WriteLoop(_, _, _, _)
WriteLoop(rest, raises, invoked, succeeded) ==
    IF rest = <<>>
    THEN IF succeeded = <<>>
         THEN [status |-> "error", err |-> "All datasources failed",
               errors |-> Errors(invoked),
               invoked |-> invoked, servedBy |-> NullDs, succeeded |-> <<>>]
         ELSE [status |-> "ok", err |-> "none", errors |-> <<>>,
               invoked |-> invoked, servedBy |-> NullDs, succeeded |-> succeeded]
    ELSE IF OpRaises(Head(rest), raises)
         THEN WriteLoop(Tail(rest), raises, Append(invoked, Head(rest)), succeeded)
         ELSE WriteLoop(Tail(rest), raises, Append(invoked, Head(rest)),
                        Append(succeeded, Head(rest)))

\* variant: the fan-out stops at the first target that answers
executeWrite_StopAtFirst(raises) ==
    LET selected == selectForWrite IN
    IF selected = <<>>
    THEN [status |-> "error", err |-> "No available datasources for write operation",
          errors |-> <<>>,
          invoked |-> <<>>, servedBy |-> NullDs, succeeded |-> <<>>]
    ELSE [ReadLoop(selected, raises, <<>>) EXCEPT !.servedBy = NullDs]

executeWrite(raises) ==
    LET selected == selectForWrite IN
    IF selected = <<>>
    THEN [status |-> "error", err |-> "No available datasources for write operation",
          errors |-> <<>>,
          invoked |-> <<>>, servedBy |-> NullDs, succeeded |-> <<>>]
    ELSE WriteLoop(selected, raises, <<>>, <<>>)

\* ------------------------------------------------------------ repository
RepositoryName == "MultiSource" \o kind \o "Repository"

\* the observation left by a call
Observation(op, id, raises, status, err, ret, flag, r, results) ==
    [op |-> op, id |-> id, raises |-> raises,
     status |-> status, err |-> err,
     method |-> IF status = "error" THEN RepositoryName \o "::" \o op ELSE "none",
     ret |-> ret, flag |-> flag,
     routed |-> r.status, routedErr |-> r.err, routedErrors |-> r.errors,
     invoked |-> r.invoked, servedBy |-> r.servedBy, results |-> results]

Idle ==
    [op |-> "none", id |-> 0, raises |-> {},
     status |-> "ok", err |-> "none", method |-> "none",
     ret |-> NoValue, flag |-> FALSE,
     routed |-> "ok", routedErr |-> "none", routedErrors |-> <<>>,
     invoked |-> <<>>, servedBy |-> NullDs, results |-> <<>>]

\* one result entry per source whose invocation returned, in invocation order
Results(succeeded, answer) ==
    [i \in 1..Len(succeeded) |-> [ds |-> succeeded[i], val |-> answer[succeeded[i]]]]

\* the sources a save goes to: Project and Note fan out with executeWrite,
\* Folder hands the save to executeRead
SaveRoute(raises) ==
    IF kind = "Folder" THEN executeRead(raises) ELSE executeWrite(raises)

\* variant: the last entry of the result list
FirstResult_Last(results) == results[Len(results)]

\* results[0] of save
FirstResult(results) == results[1]

anySuccess(results) == \E i \in 1..Len(results) : results[i].val

\* the message update() raises when every answer is false
UpdateNotFoundMessage ==
    IF kind = "Folder" THEN "Failed to update folder in any datasource"
    ELSE "not found in any datasource"

\* exists(): Project and Note swallow every error, Folder wraps and rethrows
ExistsSwallows == kind # "Folder"

save(id, v, raises) ==
    LET r == SaveRoute(raises)
        results == Results(r.succeeded, [b \in Backends |-> id])
        ok == r.status = "ok" /\ results # <<>>
    IN  /\ raises \subseteq Range(r.invoked)
        /\ storage' = [b \in Backends |->
                         IF b \in Range(r.succeeded)
                         THEN DsSave(storage[b], id, v) ELSE storage[b]]
        /\ last' = IF ok
                   THEN Observation("save", id, raises, "ok", "none",
                                    FirstResult(results).val, FALSE,
                                    [r EXCEPT !.servedBy = FirstResult(results).ds],
                                    results)
                   ELSE Observation("save", id, raises, "error",
                                    IF r.status = "ok"
                                    THEN "no datasources available" ELSE r.err,
                                    NoValue, FALSE, r, results)
        /\ UNCHANGED <<config, beyond, strategy, writeThroughEnabled, available>>

findById(id, raises) ==
    LET r == executeRead(raises)
        dto == IF r.status = "ok" THEN DsFindById(storage[r.servedBy], id)
               ELSE NoValue
    IN  /\ raises \subseteq Range(r.invoked)
        /\ last' = Observation("findById", id, raises, r.status, r.err,
                               dto, dto # NoValue, r, <<>>)
        /\ UNCHANGED <<config, beyond, strategy, writeThroughEnabled, available,
                       storage>>

\* findAll(): the records of the first source that answers
findAll(raises) ==
    LET r == executeRead(raises)
        dtos == IF r.status = "ok" THEN DsFindAll(storage[r.servedBy]) ELSE {}
    IN  /\ raises \subseteq Range(r.invoked)
        /\ last' = Observation("findAll", 0, raises, r.status, r.err,
                               NoValue, dtos # {}, r, <<>>)
        /\ UNCHANGED <<config, beyond, strategy, writeThroughEnabled, available,
                       storage>>

update(id, v, raises) ==
    LET r == executeWrite(raises)
        results == Results(r.succeeded,
                           [b \in Backends |-> DsUpdateResult(storage[b], id)])
        ok == r.status = "ok" /\ results # <<>> /\ anySuccess(results)
    IN  /\ raises \subseteq Range(r.invoked)
        /\ storage' = [b \in Backends |->
                         IF b \in Range(r.succeeded)
                         THEN DsUpdate(storage[b], id, v) ELSE storage[b]]
        /\ last' = Observation("update", id, raises,
                               IF ok THEN "ok" ELSE "error",
                               IF ok THEN "none"
                               ELSE IF r.status = "error" THEN r.err
                               ELSE IF results = <<>> /\ kind # "Folder"
                                    THEN "no datasources available"
                               ELSE UpdateNotFoundMessage,
                               NoValue, FALSE, r, results)
        /\ UNCHANGED <<config, beyond, strategy, writeThroughEnabled, available>>

deleteById(id, raises) ==
    LET r == executeWrite(raises)
        results == Results(r.succeeded,
                           [b \in Backends |-> DsDeleteByIdResult(storage[b], id)])
        returned == r.status = "ok"
        answer == returned /\ anySuccess(results)
    IN  /\ raises \subseteq Range(r.invoked)
        /\ storage' = [b \in Backends |->
                         IF b \in Range(r.succeeded)
                         THEN DsDeleteById(storage[b], id) ELSE storage[b]]
        /\ last' = Observation("deleteById", id, raises, r.status, r.err,
                               NoValue, answer, r, results)
        /\ UNCHANGED <<config, beyond, strategy, writeThroughEnabled, available>>

exists(id, raises) ==
    LET r == executeRead({})
        answer == r.status = "ok" /\ DsExists(r.servedBy, id, raises)
    IN  /\ raises \subseteq Range(r.invoked)
        /\ last' = IF r.status = "error" /\ ~ExistsSwallows
                   THEN Observation("exists", id, raises, "error", r.err,
                                    NoValue, FALSE, r, <<>>)
                   ELSE Observation("exists", id, raises, "ok", "none",
                                    NoValue, answer, r, <<>>)
        /\ UNCHANGED <<config, beyond, strategy, writeThroughEnabled, available,
                       storage>>

\* ----------------------------------------------------------- environment
\* setAvailable / connect / disconnect of one data source
setAvailable(b, avail) ==
    /\ available[b] # avail
    /\ available' = [available EXCEPT ![b] = avail]
    /\ last' = Idle
    /\ UNCHANGED <<config, beyond, strategy, writeThroughEnabled, storage>>

\* a newly constructed strategy object is handed to the router
setRoutingStrategy(strat) ==
    /\ strategy # strat
    /\ strategy' = strat
    /\ writeThroughEnabled' = TRUE
    /\ last' = Idle
    /\ UNCHANGED <<config, beyond, available, storage>>

setWriteThroughEnabled(enabled) ==
    /\ strategy = "cacheFirst"
    /\ writeThroughEnabled # enabled
    /\ writeThroughEnabled' = enabled
    /\ last' = Idle
    /\ UNCHANGED <<config, beyond, strategy, available, storage>>

\* ------------------------------------------------------------- use case
\* OperationConfig(): the built-in defaults
BuiltInConfig == [timeout |-> 30000, maxRetries |-> 3, retryDelay |-> 1000]

\* the default configuration an application hands to the constructor
DemoConfig == [timeout |-> 10000, maxRetries |-> 2, retryDelay |-> 500]

NoConfig == [timeout |-> 0, maxRetries |-> 0, retryDelay |-> 0]

\* configurations a constructor can be given
DefaultConfigs ==
    {BuiltInConfig, DemoConfig, [DemoConfig EXCEPT !.maxRetries = -1]}

\* configurations a request can carry: untouched, or with its fields set
RequestConfigs ==
    {BuiltInConfig} \cup
    [timeout : {-1, 0, 1}, maxRetries : -1..MaxRetries, retryDelay : {-1, 100}]

MaxNameLength == 255
MaxDescriptionLength == 1000

\* requests: name and description by their length
Requests ==
    [nameLen : {0, 1, MaxNameLength + 1},
     descLen : {0, MaxDescriptionLength + 1},
     config : RequestConfigs]

NoRequest == [nameLen |-> 0, descLen |-> 0, config |-> BuiltInConfig]

\* what the wrapped operation does when it runs: returns, or raises one of
\* the exception types executeWithRetry tells apart
Outcomes == {"ok", "repository", "validation", "businessRule", "unknown"}

\* variant: only the name is validated
validateRequest_NameOnly(req) ==
    IF req.nameLen = 0 THEN "Project name cannot be empty"
    ELSE IF req.nameLen > MaxNameLength
    THEN "Project name cannot exceed 255 characters"
    ELSE ""

validateRequest(req) ==
    IF req.nameLen = 0 THEN "Project name cannot be empty"
    ELSE IF req.nameLen > MaxNameLength
    THEN "Project name cannot exceed 255 characters"
    ELSE IF req.descLen > MaxDescriptionLength
    THEN "Project description cannot exceed 1000 characters"
    ELSE IF req.config.timeout < 0 THEN "Timeout cannot be negative"
    ELSE IF req.config.maxRetries < 0 THEN "Max retries cannot be negative"
    ELSE IF req.config.retryDelay < 0 THEN "Retry delay cannot be negative"
    ELSE ""

NoResponse ==
    [success |-> FALSE, category |-> "none", message |-> "",
     retryAttempt |-> 0, timedOut |-> FALSE]

\* Response(result)
SuccessResponse ==
    [success |-> TRUE, category |-> "VALIDATION_ERROR", message |-> "",
     retryAttempt |-> 0, timedOut |-> FALSE]

\* Response(category, message)
ErrorResponse(category, message) ==
    [success |-> FALSE, category |-> category, message |-> message,
     retryAttempt |-> 0, timedOut |-> FALSE]

\* the configuration executeWithRetry runs with
ChooseConfig(cfg, dflt) == IF cfg.timeout > 0 THEN cfg ELSE dflt

\* variant: one retry fewer
attemptsRemain_OneFewer(a, cfg) == a + 1 < cfg.maxRetries

\* attempt < actualConfig.maxRetries
attemptsRemain(a, cfg) == a < cfg.maxRetries

\* variant: business-rule failures are retried as well
Retried_BusinessRule == {"repository", "unknown", "businessRule"}

\* the failures executeWithRetry retries
Retried == {"repository", "unknown"}

\* category of the response for a failure the operation raised
CategoryOf(outcome) ==
    IF outcome = "repository" THEN "REPOSITORY_ERROR"
    ELSE IF outcome = "validation" THEN "VALIDATION_ERROR"
    ELSE IF outcome = "businessRule" THEN "BUSINESS_RULE_ERROR"
    ELSE "SYSTEM_ERROR"

\* the head of the retry loop for attempt a: start the operation on a
\* background task, or leave the loop
\* the report at the head of the loop
AttemptProgress(a, cfg) ==
    [currentStep |-> a + 1, totalSteps |-> cfg.maxRetries + 1]

\* the report made before the sleep that follows a RepositoryException: a
\* newly constructed OperationProgress, whose steps are left as they are
RetryProgress == [currentStep |-> 0, totalSteps |-> 1]

LoopHead(a, cfg, reports) ==
    IF a <= cfg.maxRetries
    THEN /\ attempt' = a
         /\ progressReports' = Append(reports, AttemptProgress(a, cfg))
         /\ task' = "running"
         /\ invocations' = Append(invocations, "running")
         /\ ucPc' = "WaitFor"
         /\ response' = response
    ELSE /\ attempt' = a
         /\ progressReports' = reports
         /\ task' = task
         /\ invocations' = invocations
         /\ ucPc' = "Done"
         /\ response' = ErrorResponse("SYSTEM_ERROR", "Maximum retries exceeded")

\* CreateProjectUseCase::execute up to the first attempt
execute(req) ==
    /\ ucPc = "Idle"
    /\ request' = req
    /\ IF validateRequest(req) # ""
       THEN /\ response' = ErrorResponse("VALIDATION_ERROR", validateRequest(req))
            /\ ucPc' = "Done"
            /\ UNCHANGED <<actualConfig, attempt, task, invocations,
                           progressReports>>
       ELSE /\ actualConfig' = ChooseConfig(req.config, defaultConfig)
            /\ LoopHead(0, ChooseConfig(req.config, defaultConfig), <<>>)
    /\ UNCHANGED <<defaultConfig, sleeps, projects>>

\* the background task runs the operation to its end
operationRuns(outcome) ==
    /\ task = "running"
    /\ task' = "finished"
    /\ invocations' = [invocations EXCEPT ![Len(invocations)] = outcome]
    /\ projects' = IF outcome = "ok" THEN projects + 1 ELSE projects
    /\ UNCHANGED <<defaultConfig, request, actualConfig, attempt, ucPc, sleeps,
                   response, progressReports>>

\* wait_for returns ready, future.get() returns or rethrows
futureReady ==
    LET outcome == invocations[Len(invocations)] IN
    /\ ucPc = "WaitFor"
    /\ task = "finished"
    /\ IF outcome = "ok"
       THEN ucPc' = "Done" /\ response' = SuccessResponse
       ELSE IF outcome \in Retried
       THEN IF attemptsRemain(attempt, actualConfig)
            THEN ucPc' = "SleepFor" /\ response' = response
            ELSE /\ ucPc' = "Done"
                 /\ response' = [ErrorResponse(CategoryOf(outcome), "failed after attempts")
                                     EXCEPT !.retryAttempt = attempt]
       ELSE ucPc' = "Done" /\ response' = ErrorResponse(CategoryOf(outcome), "what")
    /\ progressReports' =
          IF outcome = "repository" /\ attemptsRemain(attempt, actualConfig)
          THEN Append(progressReports, RetryProgress)
          ELSE progressReports
    /\ UNCHANGED <<defaultConfig, request, actualConfig, attempt, task,
                   invocations, sleeps, projects>>

\* variant: a timed-out attempt is left running and retried after the sleep
waitTimesOut_Abandon ==
    /\ ucPc = "WaitFor"
    /\ task = "running"
    /\ attemptsRemain(attempt, actualConfig)
    /\ ucPc' = "SleepFor"
    /\ UNCHANGED <<defaultConfig, request, actualConfig, attempt, task,
                   invocations, sleeps, response, projects, progressReports>>

\* wait_for returns timeout: TimeoutException leaves executeWithTimeout, and
\* the destructor of the future std::async returned waits for the task
waitTimesOut ==
    /\ ucPc = "WaitFor"
    /\ task = "running"
    /\ ucPc' = "Unwind"
    /\ UNCHANGED <<defaultConfig, request, actualConfig, attempt, task,
                   invocations, sleeps, response, projects, progressReports>>

\* variant: a timed-out attempt is retried while attempts remain
futureDestroyed_Retry ==
    /\ ucPc = "Unwind"
    /\ task = "finished"
    /\ IF attemptsRemain(attempt, actualConfig)
       THEN ucPc' = "SleepFor" /\ response' = response
       ELSE /\ ucPc' = "Done"
            /\ response' = [ErrorResponse("TIMEOUT_ERROR", "Operation timed out")
                                EXCEPT !.timedOut = TRUE]
    /\ UNCHANGED <<defaultConfig, request, actualConfig, attempt, task,
                   invocations, sleeps, projects, progressReports>>

\* the task has ended, the future is destroyed and the handler of
\* TimeoutException builds the response
futureDestroyed ==
    /\ ucPc = "Unwind"
    /\ task = "finished"
    /\ ucPc' = "Done"
    /\ response' = [ErrorResponse("TIMEOUT_ERROR", "Operation timed out")
                        EXCEPT !.timedOut = TRUE]
    /\ UNCHANGED <<defaultConfig, request, actualConfig, attempt, task,
                   invocations, sleeps, projects, progressReports>>

\* sleep_for(retryDelay) returns and the loop continues
sleepReturns ==
    /\ ucPc = "SleepFor"
    /\ sleeps' = sleeps + 1
    /\ LoopHead(attempt + 1, actualConfig, progressReports)
    /\ UNCHANGED <<defaultConfig, request, actualConfig, projects>>

\* ------------------------------------------------- move use cases
FolderIds == 1..NumFolders
NoteIds == 1..NumNotes
ProjectIds == {1}
\* the empty string given as an id
NoId == 0
\* an id no repository holds
UnknownId == 99

\* std::find and erase: the first occurrence of x leaves the list
RECURSIVE RemoveFirst(_, _)
RemoveFirst(ids, x) ==
    IF ids = <<>> THEN <<>>
    ELSE IF Head(ids) = x THEN Tail(ids)
    ELSE <<Head(ids)>> \o RemoveFirst(Tail(ids), x)

NoMove ==
    [op |-> "none", id |-> NoId, oldParentFolderId |-> NoId,
     newParentProjectId |-> NoId, newParentFolderId |-> NoId, success |-> FALSE, errorMessage |-> "",
     changed |-> FALSE]

\* one project whose folders all stand at its root, the notes in folder 1
TreeInit ==
    /\ folderRepository =
          [f \in FolderIds |->
              [parentProjectId |-> 1, parentFolderId |-> NoId,
               subfolderIds |-> <<>>,
               noteIds |-> IF f = 1 THEN [i \in 1..NumNotes |-> i] ELSE <<>>]]
    /\ projectRepository =
          [p \in ProjectIds |-> [folderIds |-> [i \in 1..NumFolders |-> i]]]
    /\ noteRepository = [n \in NoteIds |-> [parentFolderId |-> 1]]
    /\ moveResponse = NoMove
    /\ faults = 0

MoveFolderRequests ==
    [folderId : FolderIds \cup {NoId, UnknownId},
     newParentProjectId : ProjectIds \cup {NoId},
     newParentFolderId : FolderIds \cup {NoId, UnknownId}]

\* MoveFolderUseCase::validateRequest: the error message, "" for a valid request
MoveFolderValidateRequest(req) ==
    IF req.folderId = NoId THEN "Folder ID cannot be empty"
    ELSE IF req.newParentProjectId = NoId /\ req.newParentFolderId = NoId
    THEN "Either newParentProjectId or newParentFolderId must be specified"
    ELSE IF req.newParentProjectId # NoId /\ req.newParentFolderId # NoId
    THEN "Cannot specify both newParentProjectId and newParentFolderId"
    ELSE IF req.newParentProjectId # NoId /\ req.newParentProjectId \notin ProjectIds
    THEN "New parent project does not exist"
    ELSE IF req.newParentFolderId # NoId /\ req.newParentFolderId \notin FolderIds
    THEN "New parent folder does not exist"
    ELSE ""

\* the try block of MoveFolderUseCase::execute; of its five repository
\* updates the one numbered failAt raises when it is reached (0: none does)
MoveFolderExecute(req, failAt) ==
    IF req.folderId \notin FolderIds
    THEN [folders |-> folderRepository, projects |-> projectRepository,
          success |-> FALSE, errorMessage |-> "Folder not found"]
    ELSE
    LET folder == folderRepository[req.folderId]
        oldParentProjectId == folder.parentProjectId
        oldParentFolderId == folder.parentFolderId
        \* remove the folder from its old parent project
        do1 == oldParentProjectId \in ProjectIds
        p1 == IF do1 /\ failAt # 1
              THEN [projectRepository EXCEPT ![oldParentProjectId].folderIds =
                       RemoveFirst(@, req.folderId)]
              ELSE projectRepository
        raised1 == do1 /\ failAt = 1
        \* remove the folder from its old parent folder
        do2 == ~raised1 /\ oldParentFolderId \in FolderIds
        f2 == IF do2 /\ failAt # 2
              THEN [folderRepository EXCEPT ![oldParentFolderId].subfolderIds =
                       RemoveFirst(@, req.folderId)]
              ELSE folderRepository
        raised2 == raised1 \/ (do2 /\ failAt = 2)
        updatedFolder == [folder EXCEPT !.parentProjectId = req.newParentProjectId,
                                        !.parentFolderId = req.newParentFolderId]
        \* add the folder to its new parent project
        do3 == ~raised2 /\ req.newParentProjectId \in ProjectIds
        p3 == IF do3 /\ failAt # 3
              THEN [p1 EXCEPT ![req.newParentProjectId].folderIds =
                       Append(@, req.folderId)]
              ELSE p1
        raised3 == raised2 \/ (do3 /\ failAt = 3)
        \* add the folder to its new parent folder
        do4 == ~raised3 /\ req.newParentFolderId \in FolderIds
        f4 == IF do4 /\ failAt # 4
              THEN [f2 EXCEPT ![req.newParentFolderId].subfolderIds =
                       Append(@, req.folderId)]
              ELSE f2
        raised4 == raised3 \/ (do4 /\ failAt = 4)
        \* save the folder as it was read, with its new parent
        f5 == IF ~raised4 /\ failAt # 5
              THEN [f4 EXCEPT ![req.folderId] = updatedFolder]
              ELSE f4
        raised5 == raised4 \/ failAt = 5
    IN  [folders |-> f5, projects |-> p3, success |-> ~raised5,
         errorMessage |-> IF raised5 THEN "Failed to move folder" ELSE ""]

\* no list of ids has outgrown MaxListLen
WithinListLen(folders, projs) ==
    /\ \A f \in FolderIds : /\ Len(folders[f].subfolderIds) <= MaxListLen
                            /\ Len(folders[f].noteIds) <= MaxListLen
    /\ \A p \in ProjectIds : Len(projs[p].folderIds) <= MaxListLen

\* what the move use cases leave alone
others == <<config, strategy, writeThroughEnabled, available, storage, last,
            hist, registered, metrics, uc>>

\* MoveFolderUseCase::execute
MoveFolderUseCase(req, failAt) ==
    LET validationError == MoveFolderValidateRequest(req)
        out == IF validationError # ""
               THEN [folders |-> folderRepository, projects |-> projectRepository,
                     success |-> FALSE, errorMessage |-> validationError]
               ELSE MoveFolderExecute(req, failAt)
        raised == out.errorMessage = "Failed to move folder"
    IN  /\ WithinListLen(out.folders, out.projects)
        /\ raised => faults < MaxFaults
        /\ faults' = IF raised THEN faults + 1 ELSE faults
        /\ folderRepository' = out.folders
        /\ projectRepository' = out.projects
        /\ moveResponse' =
              [op |-> "MoveFolder", id |-> req.folderId,
               oldParentFolderId |->
                   IF req.folderId \in FolderIds
                   THEN folderRepository[req.folderId].parentFolderId ELSE NoId,
               newParentProjectId |-> req.newParentProjectId,
               newParentFolderId |-> req.newParentFolderId,
               success |-> out.success, errorMessage |-> out.errorMessage,
               changed |-> out.folders # folderRepository
                              \/ out.projects # projectRepository]
        /\ UNCHANGED <<noteRepository, others>>

MoveNoteRequests ==
    [noteId : NoteIds \cup {NoId, UnknownId},
     targetFolderId : FolderIds \cup {NoId, UnknownId}]

\* MoveNoteUseCase::validateRequest: the error message, "" for a valid request
MoveNoteValidateRequest(req) ==
    IF req.noteId = NoId THEN "Note ID cannot be empty"
    ELSE IF req.targetFolderId = NoId THEN "Target folder ID cannot be empty"
    ELSE IF req.targetFolderId \notin FolderIds THEN "Target folder does not exist"
    ELSE ""

\* the try block of MoveNoteUseCase::execute; of its three repository updates
\* the one numbered failAt raises when it is reached (0: none does)
MoveNoteExecute(req, failAt) ==
    IF req.noteId \notin NoteIds
    THEN [folders |-> folderRepository, notes |-> noteRepository,
          success |-> FALSE, errorMessage |-> "Note not found"]
    ELSE IF req.targetFolderId \notin FolderIds
    THEN [folders |-> folderRepository, notes |-> noteRepository,
          success |-> FALSE, errorMessage |-> "Target folder not found"]
    ELSE
    LET note == noteRepository[req.noteId]
        targetFolder == folderRepository[req.targetFolderId]
        oldFolderId == note.parentFolderId
        \* remove the note from its old folder
        do1 == oldFolderId \in FolderIds
        f1 == IF do1 /\ failAt # 1
              THEN [folderRepository EXCEPT ![oldFolderId].noteIds =
                       RemoveFirst(@, req.noteId)]
              ELSE folderRepository
        raised1 == do1 /\ failAt = 1
        \* add the note to the target folder as it was read
        f2 == IF ~raised1 /\ failAt # 2
              THEN [f1 EXCEPT ![req.targetFolderId] =
                       [targetFolder EXCEPT !.noteIds = Append(@, req.noteId)]]
              ELSE f1
        raised2 == raised1 \/ failAt = 2
        \* update the note's parent folder id
        n3 == IF ~raised2 /\ failAt # 3
              THEN [noteRepository EXCEPT ![req.noteId].parentFolderId =
                       req.targetFolderId]
              ELSE noteRepository
        raised3 == raised2 \/ failAt = 3
    IN  IF oldFolderId = req.targetFolderId
        THEN [folders |-> folderRepository, notes |-> noteRepository,
              success |-> TRUE, errorMessage |-> ""]
        ELSE [folders |-> f2, notes |-> n3, success |-> ~raised3,
              errorMessage |-> IF raised3 THEN "Failed to move note" ELSE ""]

\* MoveNoteUseCase::execute
MoveNoteUseCase(req, failAt) ==
    LET validationError == MoveNoteValidateRequest(req)
        out == IF validationError # ""
               THEN [folders |-> folderRepository, notes |-> noteRepository,
                     success |-> FALSE, errorMessage |-> validationError]
               ELSE MoveNoteExecute(req, failAt)
        raised == out.errorMessage = "Failed to move note"
    IN  /\ WithinListLen(out.folders, projectRepository)
        /\ raised => faults < MaxFaults
        /\ faults' = IF raised THEN faults + 1 ELSE faults
        /\ folderRepository' = out.folders
        /\ noteRepository' = out.notes
        /\ moveResponse' =
              [op |-> "MoveNote", id |-> req.noteId,
               oldParentFolderId |->
                   IF req.noteId \in NoteIds
                   THEN noteRepository[req.noteId].parentFolderId ELSE NoId,
               newParentProjectId |-> NoId,
               newParentFolderId |-> req.targetFolderId,
               success |-> out.success, errorMessage |-> out.errorMessage,
               changed |-> out.folders # folderRepository
                              \/ out.notes # noteRepository]
        /\ UNCHANGED <<projectRepository, others>>

\* ---------------------------------------------------------- specification
\* db (Database, priority 100) is registered first, cache (Memory, priority
\* 200) second, and so on alternately
TypeOf(b) == IF b % 2 = 1 THEN "Database" ELSE "Memory"

PriorityOf(b) == 100 * b

NoMetrics == [totalRequests |-> 0, successfulRequests |-> 0, failedRequests |-> 0]

\* no call of execute has been made
UcInit ==
    /\ defaultConfig = BuiltInConfig
    /\ request = NoRequest
    /\ actualConfig = NoConfig
    /\ attempt = 0
    /\ ucPc = "Idle"
    /\ task = "none"
    /\ invocations = <<>>
    /\ sleeps = 0
    /\ response = NoResponse
    /\ projects = 0
    /\ progressReports = <<>>

Init ==
    /\ kind \in Kinds
    /\ routerImpl = "multi"
    /\ dataSources = [i \in 1..NumBackends |-> i]
    /\ dsName = [b \in Backends |-> b]
    /\ dsType = [b \in Backends |-> TypeOf(b)]
    /\ dsPriority = [b \in Backends |-> PriorityOf(b)]
    /\ strategy \in StrategyKinds
    /\ writeThroughEnabled = TRUE
    /\ available = [b \in Backends |-> TRUE]
    /\ storage = [b \in Backends |-> [i \in Ids |-> NoValue]]
    /\ last = Idle
    /\ acked = [i \in Ids |-> NoValue]
    /\ ackedFull = [i \in Ids |-> NoValue]
    /\ deleted = [i \in Ids |-> FALSE]
    /\ registered = dataSources
    /\ metrics = [b \in Backends |-> NoMetrics]
    /\ UcInit
    /\ TreeInit

\* the sources that can fail a call although they report themselves available
\* (a call names the sources whose invocation fails; only a source the call
\* invokes can fail it)
Failing == SUBSET {b \in Backends : available[b]}

\* ---- the calls of a repository and the changes around it
Save ==
    \E id \in Ids, v \in Values, raises \in Failing :
        save(id, v, raises) /\ UNCHANGED hist

FindById ==
    \E id \in Ids, raises \in Failing : findById(id, raises) /\ UNCHANGED hist

FindAll ==
    \E raises \in Failing : findAll(raises) /\ UNCHANGED hist

Update ==
    \E id \in Ids, v \in Values, raises \in Failing :
        update(id, v, raises) /\ UNCHANGED hist

DeleteById ==
    \E id \in Ids, raises \in Failing : deleteById(id, raises) /\ UNCHANGED hist

Exists ==
    \E id \in Ids, raises \in Failing : exists(id, raises) /\ UNCHANGED hist

SetAvailable ==
    \E b \in Backends, avail \in BOOLEAN : setAvailable(b, avail) /\ UNCHANGED hist

SetRoutingStrategy ==
    \E strat \in StrategyKinds : setRoutingStrategy(strat) /\ UNCHANGED hist

SetWriteThroughEnabled ==
    \E enabled \in BOOLEAN : setWriteThroughEnabled(enabled) /\ UNCHANGED hist

Next ==
    \/ Save
    \/ FindById
    \/ FindAll
    \/ Update
    \/ DeleteById
    \/ Exists
    \/ SetAvailable
    \/ SetRoutingStrategy
    \/ SetWriteThroughEnabled

Spec == Init /\ [][Next]_vars

\* ---- the same calls, with the acknowledged writes and deletes written down
Wrote == last'.op \in {"save", "update"} /\ last'.status = "ok"

DeleteReturned == last'.op = "deleteById" /\ last'.status = "ok"

BookAcks(id, v) ==
    /\ acked' = IF Wrote THEN [acked EXCEPT ![id] = v]
                ELSE IF DeleteReturned THEN [acked EXCEPT ![id] = NoValue]
                ELSE acked
    /\ deleted' = IF last'.op = "save" /\ last'.status = "ok"
                  THEN [deleted EXCEPT ![id] = FALSE]
                  ELSE IF DeleteReturned /\ last'.flag
                  THEN [deleted EXCEPT ![id] = TRUE]
                  ELSE deleted
    /\ UNCHANGED ackedFull

SaveAcked ==
    \E id \in Ids, v \in Values, raises \in Failing :
        save(id, v, raises) /\ BookAcks(id, v)

FindByIdAcked ==
    \E id \in Ids, raises \in Failing : findById(id, raises) /\ BookAcks(id, NoValue)

UpdateAcked ==
    \E id \in Ids, v \in Values, raises \in Failing :
        update(id, v, raises) /\ BookAcks(id, v)

DeleteByIdAcked ==
    \E id \in Ids, raises \in Failing : deleteById(id, raises) /\ BookAcks(id, NoValue)

ExistsAcked ==
    \E id \in Ids, raises \in Failing : exists(id, raises) /\ BookAcks(id, NoValue)

SetAvailableAcked ==
    \E b \in Backends, avail \in BOOLEAN : setAvailable(b, avail) /\ UNCHANGED hist

SetRoutingStrategyAcked ==
    \E strat \in StrategyKinds : setRoutingStrategy(strat) /\ UNCHANGED hist

SetWriteThroughEnabledAcked ==
    \E enabled \in BOOLEAN : setWriteThroughEnabled(enabled) /\ UNCHANGED hist

NextHist ==
    \/ SaveAcked
    \/ FindByIdAcked
    \/ FindAll
    \/ UpdateAcked
    \/ DeleteByIdAcked
    \/ ExistsAcked
    \/ SetAvailableAcked
    \/ SetRoutingStrategyAcked
    \/ SetWriteThroughEnabledAcked

SpecHist == Init /\ [][NextHist]_vars

\* ---- the same calls, with the saves that reached every registered source
BookFull(id, v) ==
    /\ ackedFull' =
          IF last'.op = "save" /\ last'.status = "ok"
          THEN [ackedFull EXCEPT ![id] =
                   IF {last'.results[i].ds : i \in 1..Len(last'.results)}
                         = Range(dataSources)
                   THEN v ELSE NoValue]
          ELSE IF last'.op \in {"update", "deleteById"}
          THEN [ackedFull EXCEPT ![id] = NoValue]
          ELSE ackedFull
    /\ UNCHANGED <<acked, deleted>>

SaveFull ==
    \E id \in Ids, v \in Values, raises \in Failing :
        save(id, v, raises) /\ BookFull(id, v)

FindByIdFull ==
    \E id \in Ids, raises \in Failing : findById(id, raises) /\ BookFull(id, NoValue)

UpdateFull ==
    \E id \in Ids, v \in Values, raises \in Failing :
        update(id, v, raises) /\ BookFull(id, v)

DeleteByIdFull ==
    \E id \in Ids, raises \in Failing : deleteById(id, raises) /\ BookFull(id, NoValue)

ExistsFull ==
    \E id \in Ids, raises \in Failing : exists(id, raises) /\ BookFull(id, NoValue)

SetAvailableFull ==
    \E b \in Backends, avail \in BOOLEAN : setAvailable(b, avail) /\ UNCHANGED hist

SetRoutingStrategyFull ==
    \E strat \in StrategyKinds : setRoutingStrategy(strat) /\ UNCHANGED hist

SetWriteThroughEnabledFull ==
    \E enabled \in BOOLEAN : setWriteThroughEnabled(enabled) /\ UNCHANGED hist

NextFull ==
    \/ SaveFull
    \/ FindByIdFull
    \/ FindAll
    \/ UpdateFull
    \/ DeleteByIdFull
    \/ ExistsFull
    \/ SetAvailableFull
    \/ SetRoutingStrategyFull
    \/ SetWriteThroughEnabledFull

SpecFull == Init /\ [][NextFull]_vars

\* ---- one call of CreateProjectUseCase::execute
\* the router and its data sources, which a use case call leaves alone here
routing == <<config, strategy, writeThroughEnabled, available, storage, last,
             hist, registered, metrics, tree>>

InitUseCase ==
    /\ kind = "Project"
    /\ routerImpl = "multi"
    /\ dataSources = [i \in 1..NumBackends |-> i]
    /\ dsName = [b \in Backends |-> b]
    /\ dsType = [b \in Backends |-> TypeOf(b)]
    /\ dsPriority = [b \in Backends |-> PriorityOf(b)]
    /\ strategy = "none"
    /\ writeThroughEnabled = TRUE
    /\ available = [b \in Backends |-> TRUE]
    /\ storage = [b \in Backends |-> [i \in Ids |-> NoValue]]
    /\ last = Idle
    /\ acked = [i \in Ids |-> NoValue]
    /\ ackedFull = [i \in Ids |-> NoValue]
    /\ deleted = [i \in Ids |-> FALSE]
    /\ registered = dataSources
    /\ metrics = [b \in Backends |-> NoMetrics]
    /\ defaultConfig \in DefaultConfigs
    /\ request = NoRequest
    /\ actualConfig = NoConfig
    /\ attempt = 0
    /\ ucPc = "Idle"
    /\ task = "none"
    /\ invocations = <<>>
    /\ sleeps = 0
    /\ response = NoResponse
    /\ projects = 0
    /\ progressReports = <<>>
    /\ TreeInit

Execute == \E req \in Requests : execute(req) /\ UNCHANGED routing

OperationRuns == \E outcome \in Outcomes : operationRuns(outcome) /\ UNCHANGED routing

FutureReady == futureReady /\ UNCHANGED routing

WaitTimesOut == waitTimesOut /\ UNCHANGED routing

FutureDestroyed == futureDestroyed /\ UNCHANGED routing

SleepReturns == sleepReturns /\ UNCHANGED routing

NextUseCase ==
    \/ Execute
    \/ OperationRuns
    \/ FutureReady
    \/ WaitTimesOut
    \/ FutureDestroyed
    \/ SleepReturns

SpecUseCase == InitUseCase /\ [][NextUseCase]_vars

\* ---- calls made on one data source, with its request counters
\* the data source is a SqliteProjectDataSource (type "SQLite") or a
\* MockProjectDataSource
IsSqlite(b) == dsType[b] = "SQLite"

\* variant: a failed request is added to the total only
updateMetrics_TotalOnly(m, success) ==
    [totalRequests |-> m.totalRequests + 1,
     successfulRequests |-> m.successfulRequests + (IF success THEN 1 ELSE 0),
     failedRequests |-> m.failedRequests]

\* SqliteProjectDataSource::updateMetrics
updateMetrics(m, success) ==
    [totalRequests |-> m.totalRequests + 1,
     successfulRequests |-> m.successfulRequests + (IF success THEN 1 ELSE 0),
     failedRequests |-> m.failedRequests + (IF success THEN 0 ELSE 1)]

\* MockProjectDataSource: metrics.totalRequests++; metrics.successfulRequests++
MockCount(m) ==
    [m EXCEPT !.totalRequests = @ + 1, !.successfulRequests = @ + 1]

\* the call raises: the source is unavailable, or its statement fails
\* (a mock has no statement to fail)
CallRaises(b, fails) == (~available[b]) \/ (IsSqlite(b) /\ fails)

\* the counters of source b after a call: a call that raised is counted as
\* failed by the SQLite source (catch block) and not at all by the mock (it
\* throws first); a call that returned is counted as successful unless it left
\* before the counting statement (counted = FALSE)
Metered(b, raised, counted) ==
    IF IsSqlite(b)
    THEN IF raised THEN updateMetrics(metrics[b], FALSE)
         ELSE IF counted THEN updateMetrics(metrics[b], TRUE)
         ELSE metrics[b]
    ELSE IF raised \/ ~counted THEN metrics[b]
         ELSE MockCount(metrics[b])

\* a behaviour follows one data source: data sources share no state
Alone(b) ==
    \A c \in Backends \ {b} :
        /\ metrics[c] = NoMetrics
        /\ available[c]
        /\ \A i \in Ids : storage[c][i] = NoValue

\* what a direct call on data source b leaves behind
DsCall(b, op, raised, counted, st) ==
    /\ Alone(b)
    /\ metrics[b].totalRequests < MaxRequests
    /\ metrics' = [metrics EXCEPT ![b] = Metered(b, raised, counted)]
    /\ storage' = [storage EXCEPT ![b] = IF raised THEN storage[b] ELSE st]
    /\ last' = [op |-> op, ds |-> b, raised |-> raised]
    /\ UNCHANGED <<config, strategy, writeThroughEnabled, available, hist,
                   registered, uc, tree>>

DataSourceSave ==
    \E b \in Backends, id \in Ids, v \in Values, fails \in BOOLEAN :
        DsCall(b, "save", CallRaises(b, fails), TRUE, DsSave(storage[b], id, v))

DataSourceFindById ==
    \E b \in Backends, id \in Ids, fails \in BOOLEAN :
        DsCall(b, "findById", CallRaises(b, fails), TRUE, storage[b])

DataSourceDeleteById ==
    \E b \in Backends, id \in Ids, fails \in BOOLEAN :
        DsCall(b, "deleteById", CallRaises(b, fails), TRUE,
               DsDeleteById(storage[b], id))

\* update returns false without counting when the entity is absent
DataSourceUpdate ==
    \E b \in Backends, id \in Ids, v \in Values, fails \in BOOLEAN :
        DsCall(b, "update", CallRaises(b, fails), DsUpdateResult(storage[b], id),
               DsUpdate(storage[b], id, v))

\* exists never raises and is not counted
DataSourceExists ==
    \E b \in Backends, id \in Ids :
        DsCall(b, "exists", FALSE, FALSE, storage[b])

DataSourceSetAvailable ==
    \E b \in Backends, avail \in BOOLEAN :
        /\ Alone(b)
        /\ available[b] # avail
        /\ available' = [available EXCEPT ![b] = avail]
        /\ last' = Idle
        /\ UNCHANGED <<config, strategy, writeThroughEnabled, storage, hist,
                       registered, metrics, uc, tree>>

InitMetrics ==
    /\ kind = "Project"
    /\ routerImpl = "multi"
    /\ dataSources = [i \in 1..NumBackends |-> i]
    /\ dsName = [b \in Backends |-> b]
    /\ dsType \in [Backends -> {"SQLite", "Memory"}]
    /\ dsPriority = [b \in Backends |-> PriorityOf(b)]
    /\ strategy = "none"
    /\ writeThroughEnabled = TRUE
    /\ available = [b \in Backends |-> TRUE]
    /\ storage = [b \in Backends |-> [i \in Ids |-> NoValue]]
    /\ last = Idle
    /\ acked = [i \in Ids |-> NoValue]
    /\ ackedFull = [i \in Ids |-> NoValue]
    /\ deleted = [i \in Ids |-> FALSE]
    /\ registered = dataSources
    /\ metrics = [b \in Backends |-> NoMetrics]
    /\ UcInit
    /\ TreeInit

NextMetrics ==
    \/ DataSourceSave
    \/ DataSourceFindById
    \/ DataSourceDeleteById
    \/ DataSourceUpdate
    \/ DataSourceExists
    \/ DataSourceSetAvailable

SpecMetrics == InitMetrics /\ [][NextMetrics]_vars

\* ---- registration of data sources with a router
RouterImpls == {"multi", "single"}

\* std::remove_if over dataSources: the entries not bearing the name, in order
RemoveIf(srcs, name) == SeqFilter(srcs, {b \in Backends : dsName[b] # name})

\* addDataSource: the multi-source router appends a non-null pointer, the
\* single-source router ignores the call
addDataSource(ds) ==
    /\ dataSources' = IF routerImpl = "multi" /\ ds # NullDs
                      THEN Append(dataSources, ds)
                      ELSE dataSources
    /\ last' = [op |-> "addDataSource", ds |-> ds]
    /\ UNCHANGED <<kind, routerImpl, dsName, dsType, dsPriority, strategy,
                   writeThroughEnabled, available, storage, hist, metrics, uc, tree>>

\* removeDataSource: the multi-source router erases from the iterator
\* remove_if returns to the end and answers whether anything was erased; the
\* single-source router answers false
removeDataSource(name) ==
    LET kept == RemoveIf(dataSources, name)
        ret == routerImpl = "multi" /\ kept # dataSources
    IN  /\ dataSources' = IF routerImpl = "multi" THEN kept ELSE dataSources
        /\ last' = [op |-> "removeDataSource", name |-> name, ret |-> ret,
                    before |-> dataSources]
        /\ UNCHANGED <<kind, routerImpl, dsName, dsType, dsPriority, strategy,
                       writeThroughEnabled, available, storage, hist, metrics, uc, tree>>

\* the multi-source router starts empty, the single-source router is
\* constructed around its one data source
InitRegistry ==
    /\ kind = "Project"
    /\ routerImpl \in RouterImpls
    /\ dataSources \in IF routerImpl = "multi" THEN {<<>>}
                       ELSE {<<b>> : b \in Backends}
    /\ dsName \in [Backends -> Backends]
    /\ dsType = [b \in Backends |-> TypeOf(b)]
    /\ dsPriority = [b \in Backends |-> PriorityOf(b)]
    /\ strategy = "none"
    /\ writeThroughEnabled = TRUE
    /\ available = [b \in Backends |-> TRUE]
    /\ storage = [b \in Backends |-> [i \in Ids |-> NoValue]]
    /\ last = Idle
    /\ acked = [i \in Ids |-> NoValue]
    /\ ackedFull = [i \in Ids |-> NoValue]
    /\ deleted = [i \in Ids |-> FALSE]
    /\ registered = dataSources
    /\ metrics = [b \in Backends |-> NoMetrics]
    /\ UcInit
    /\ TreeInit

\* the data sources handed to the router and not removed since, in the order
\* they were handed over
AddDataSource ==
    \E ds \in Backends \cup {NullDs} :
        /\ Len(registered) < MaxRegistered
        /\ addDataSource(ds)
        /\ registered' = IF ds # NullDs THEN Append(registered, ds) ELSE registered

RemoveDataSource ==
    \E name \in Backends :
        /\ removeDataSource(name)
        /\ registered' = RemoveIf(registered, name)

NextRegistry ==
    \/ AddDataSource
    \/ RemoveDataSource

SpecRegistry == InitRegistry /\ [][NextRegistry]_vars

\* ---- calls made on a router of either implementation
\* single-source router: getAvailableDataSources returns {dataSource}
SingleGetAvailableDataSources == dataSources

\* single-source router: executeRead and executeWrite hand the operation to
\* dataSource, whose exception leaves the router as it is
SingleExecute(raises) ==
    LET ds == dataSources[1] IN
    IF OpRaises(ds, raises)
    THEN [status |-> "error", err |-> What(ds), errors |-> <<>>,
          invoked |-> <<ds>>, servedBy |-> NullDs, succeeded |-> <<>>]
    ELSE [status |-> "ok", err |-> "none", errors |-> <<>>,
          invoked |-> <<ds>>, servedBy |-> ds, succeeded |-> <<ds>>]

RouterGetAvailableDataSources ==
    IF routerImpl = "single" THEN SingleGetAvailableDataSources
    ELSE getAvailableDataSources

RouterExecuteRead(raises) ==
    IF routerImpl = "single" THEN SingleExecute(raises) ELSE executeRead(raises)

RouterExecuteWrite(raises) ==
    IF routerImpl = "single" THEN SingleExecute(raises) ELSE executeWrite(raises)

\* what a call on the router leaves behind
RouterCall(op, raises, r) ==
    /\ raises \subseteq {b \in Range(r.invoked) : available[b]}
    /\ last' = [op |-> op, raises |-> raises, status |-> r.status,
                err |-> r.err, invoked |-> r.invoked]
    /\ UNCHANGED <<config, strategy, writeThroughEnabled, available, storage,
                   hist, beyond>>

RouterRead ==
    \E raises \in SUBSET Backends :
        RouterCall("executeRead", raises, RouterExecuteRead(raises))

RouterWrite ==
    \E raises \in SUBSET Backends :
        RouterCall("executeWrite", raises, RouterExecuteWrite(raises))

RouterSetAvailable ==
    \E b \in Backends, avail \in BOOLEAN : setAvailable(b, avail) /\ UNCHANGED hist

\* the single-source router ignores setRoutingStrategy
RouterSetRoutingStrategy ==
    \E strat \in StrategyKinds :
        /\ routerImpl = "multi"
        /\ setRoutingStrategy(strat)
        /\ UNCHANGED hist

RouterSetWriteThroughEnabled ==
    \E enabled \in BOOLEAN : setWriteThroughEnabled(enabled) /\ UNCHANGED hist

InitRouter ==
    /\ kind = "Project"
    /\ routerImpl \in RouterImpls
    /\ dataSources \in IF routerImpl = "multi" THEN {[i \in 1..NumBackends |-> i]}
                       ELSE {<<b>> : b \in Backends}
    /\ dsName = [b \in Backends |-> b]
    /\ dsType = [b \in Backends |-> TypeOf(b)]
    /\ dsPriority = [b \in Backends |-> PriorityOf(b)]
    /\ strategy \in IF routerImpl = "multi" THEN StrategyKinds ELSE {"none"}
    /\ writeThroughEnabled = TRUE
    /\ available = [b \in Backends |-> TRUE]
    /\ storage = [b \in Backends |-> [i \in Ids |-> NoValue]]
    /\ last = Idle
    /\ acked = [i \in Ids |-> NoValue]
    /\ ackedFull = [i \in Ids |-> NoValue]
    /\ deleted = [i \in Ids |-> FALSE]
    /\ registered = dataSources
    /\ metrics = [b \in Backends |-> NoMetrics]
    /\ UcInit
    /\ TreeInit

NextRouter ==
    \/ RouterRead
    \/ RouterWrite
    \/ RouterSetAvailable
    \/ RouterSetRoutingStrategy
    \/ RouterSetWriteThroughEnabled

SpecRouter == InitRouter /\ [][NextRouter]_vars

\* ---- calls made on a routing strategy
\* the lists a strategy can be handed: data sources in any order
SourceLists ==
    {srcs \in UNION {[1..n -> Backends] : n \in 0..NumBackends} :
        \A i, j \in 1..Len(srcs) : srcs[i] = srcs[j] => i = j}

StrategySelectForRead ==
    \E strat \in {"priority", "cacheFirst"}, srcs \in SourceLists :
        /\ last' = [op |-> "selectForRead", strategy |-> strat, srcs |-> srcs,
                    ret |-> IF strat = "priority" THEN PrioritySelectForRead(srcs)
                            ELSE CacheFirstSelectForRead(srcs)]
        /\ UNCHANGED <<config, strategy, writeThroughEnabled, available, storage,
                       hist, beyond>>

StrategySelectForWrite ==
    \E strat \in {"priority", "cacheFirst"}, srcs \in SourceLists :
        /\ last' = [op |-> "selectForWrite", strategy |-> strat, srcs |-> srcs,
                    ret |-> IF strat = "priority" THEN PrioritySelectForWrite(srcs)
                            ELSE CacheFirstSelectForWrite(srcs)]
        /\ UNCHANGED <<config, strategy, writeThroughEnabled, available, storage,
                       hist, beyond>>

StrategySetWriteThroughEnabled ==
    \E enabled \in BOOLEAN :
        /\ writeThroughEnabled # enabled
        /\ writeThroughEnabled' = enabled
        /\ last' = Idle
        /\ UNCHANGED <<config, strategy, available, storage, hist, beyond>>

\* data sources of any type and priority
InitStrategy ==
    /\ kind = "Project"
    /\ routerImpl = "multi"
    /\ dataSources = [i \in 1..NumBackends |-> i]
    /\ dsName = [b \in Backends |-> b]
    /\ dsType \in [Backends -> {"Database", "Memory", "Cache"}]
    /\ dsPriority \in [Backends -> {PriorityOf(1), PriorityOf(2)}]
    /\ strategy = "none"
    /\ writeThroughEnabled = TRUE
    /\ available = [b \in Backends |-> TRUE]
    /\ storage = [b \in Backends |-> [i \in Ids |-> NoValue]]
    /\ last = Idle
    /\ acked = [i \in Ids |-> NoValue]
    /\ ackedFull = [i \in Ids |-> NoValue]
    /\ deleted = [i \in Ids |-> FALSE]
    /\ registered = dataSources
    /\ metrics = [b \in Backends |-> NoMetrics]
    /\ UcInit
    /\ TreeInit

NextStrategy ==
    \/ StrategySelectForRead
    \/ StrategySelectForWrite
    \/ StrategySetWriteThroughEnabled

SpecStrategy == InitStrategy /\ [][NextStrategy]_vars

\* ---- moving folders
\* the repository of the other specifications at rest, which the move use
\* cases do not call, and the tree of TreeInit
InitMove ==
    /\ kind = "Project"
    /\ routerImpl = "multi"
    /\ dataSources = [i \in 1..NumBackends |-> i]
    /\ dsName = [b \in Backends |-> b]
    /\ dsType = [b \in Backends |-> TypeOf(b)]
    /\ dsPriority = [b \in Backends |-> PriorityOf(b)]
    /\ strategy = "none"
    /\ writeThroughEnabled = TRUE
    /\ available = [b \in Backends |-> TRUE]
    /\ storage = [b \in Backends |-> [i \in Ids |-> NoValue]]
    /\ last = Idle
    /\ acked = [i \in Ids |-> NoValue]
    /\ ackedFull = [i \in Ids |-> NoValue]
    /\ deleted = [i \in Ids |-> FALSE]
    /\ registered = dataSources
    /\ metrics = [b \in Backends |-> NoMetrics]
    /\ UcInit
    /\ TreeInit

MoveFolder ==
    \E req \in MoveFolderRequests, failAt \in 0..5 : MoveFolderUseCase(req, failAt)

NextMoveFolder == MoveFolder

SpecMoveFolder == InitMove /\ [][NextMoveFolder]_vars

\* ---- moving notes
MoveNote ==
    \E req \in MoveNoteRequests, failAt \in 0..3 : MoveNoteUseCase(req, failAt)

NextMoveNote == MoveNote

SpecMoveNote == InitMove /\ [][NextMoveNote]_vars

\* ================================================================ claims
\* the call observed in `last` went through the router's executeWrite
UsesExecuteWrite ==
    \/ last.op \in {"update", "deleteById"}
    \/ last.op = "save" /\ kind # "Folder"

\* the call observed in `last` went through the router's executeRead
UsesExecuteRead ==
    \/ last.op \in {"findById", "findAll", "exists"}
    \/ last.op = "save" /\ kind = "Folder"

\* the invocations that raised inside the router (a source's exists() answers
\* false instead of raising)
RouterRaises == IF last.op = "exists" THEN {} ELSE last.raises

\* every available source is a write target under the active strategy
WriteThrough == strategy # "cacheFirst" \/ writeThroughEnabled

\* C1: executeWrite invokes the operation on every source selectForWrite
\* returns, in that order; it returns normally exactly when at least one of
\* these invocations did not raise, and otherwise raises "No available
\* datasources" (empty target list) or "All datasources failed".
C1_ExecuteWriteFanOut ==
    UsesExecuteWrite =>
        /\ last.invoked = selectForWrite
        /\ (last.routed = "ok") <=>
               (\E i \in 1..Len(selectForWrite) : selectForWrite[i] \notin last.raises)
        /\ last.routed = "error" =>
               /\ \A i \in 1..Len(selectForWrite) : selectForWrite[i] \in last.raises
               /\ last.routedErr = IF selectForWrite = <<>>
                                   THEN "No available datasources for write operation"
                                   ELSE "All datasources failed"
        /\ {last.results[i].ds : i \in 1..Len(last.results)}
               = Range(selectForWrite) \ last.raises

\* a write to two targets of which one raised and one answered
C1_Witness ==
    /\ last.op = "update"
    /\ Len(last.invoked) = 2
    /\ last.invoked[1] \in last.raises
    /\ last.invoked[2] \notin last.raises
    /\ last.routed = "ok"

C3_SaveReachesEverySource ==
    ( /\ last.op = "save"
      /\ last.status = "ok"
      /\ \A b \in Range(dataSources) : available[b]
      /\ last.raises = {}
      /\ WriteThrough )
    => \A b \in Range(dataSources) :
          /\ storage[b][last.id] # NoValue
          /\ storage[b][last.id] = storage[last.servedBy][last.id]

\* the available sources that would answer findById with a record
Holders(id, raises) ==
    SeqFilter(getAvailableDataSources,
              {b \in Backends : b \notin raises /\ storage[b][id] # NoValue})

\* C4: findById returns the first non-empty record found among the available
\* sources; it reports "not found" only if no available source holds a
\* record, and raises only if every available source raises.
C4_FindByIdFirstRecord ==
    last.op = "findById" =>
        LET holders == Holders(last.id, last.raises) IN
        /\ holders # <<>> =>
               /\ last.status = "ok"
               /\ last.ret = storage[holders[1]][last.id]
        /\ (last.status = "ok" /\ ~last.flag) => holders = <<>>
        /\ last.status = "error" =>
               \A b \in Range(getAvailableDataSources) : b \in last.raises

\* C5: once save or update of an entity has returned normally, every later
\* findById of its id issued while a source is available (no source failing
\* the call, no delete of the id in between) returns the latest written value.
C5_ReadYourWrites ==
    ( /\ last.op = "findById"
      /\ acked[last.id] # NoValue
      /\ getAvailableDataSources # <<>>
      /\ last.raises = {} )
    => /\ last.status = "ok"
       /\ last.ret = acked[last.id]

\* C6: after deleteById has returned true, exists answers false and findById
\* reports "not found" on every later call, until the id is saved again.
C6_DeleteIsFinal ==
    ( /\ last.op \in {"exists", "findById"}
      /\ deleted[last.id]
      /\ last.status = "ok" )
    => ~last.flag

\* C7: after a save that succeeded on every registered source, with one of
\* them since made unavailable, findById still returns the saved entity,
\* served by a source that is available.
C7_FailoverAfterFullSave ==
    ( /\ last.op = "findById"
      /\ ackedFull[last.id] # NoValue
      /\ \E b \in Range(dataSources) : ~available[b]
      /\ \E b \in Range(dataSources) : available[b] /\ b \notin last.raises )
    => /\ last.status = "ok"
       /\ last.ret = ackedFull[last.id]
       /\ last.servedBy \in Range(dataSources)
       /\ available[last.servedBy]

\* the first registered source is down and the read is served by the second
C7_Witness ==
    /\ last.op = "findById"
    /\ ackedFull[last.id] # NoValue
    /\ ~available[dataSources[1]]
    /\ last.status = "ok"
    /\ last.servedBy = dataSources[2]
    /\ last.ret = ackedFull[last.id]

\* the write targets whose invocation did not raise, in write order
Survivors == SeqFilter(selectForWrite, Backends \ last.raises)

\* C8: save returns the id reported by the first entry of the result list
\* (write order); with one of two write-through sources unavailable or
\* failing it still succeeds with the survivor's id; it fails exactly when no
\* write succeeded.
C8_SaveReturnsFirstResult ==
    last.op = "save" =>
        /\ last.status = "ok" =>
               /\ last.results # <<>>
               /\ last.servedBy = last.results[1].ds
               /\ last.ret = last.results[1].val
               /\ last.ret = last.id
               /\ \A i \in 1..Len(last.results) :
                      storage[last.results[i].ds][last.id] # NoValue
               /\ kind # "Folder" => last.servedBy = Survivors[1]
        /\ (last.status = "error") <=> (last.results = <<>>)
        /\ (kind # "Folder" /\ Len(Survivors) >= 1) => last.status = "ok"

\* two sources selected, the first fails the call, the second reports the id
C8_Witness ==
    /\ last.op = "save"
    /\ kind = "Project"
    /\ strategy = "cacheFirst" /\ writeThroughEnabled
    /\ Len(last.invoked) = 2
    /\ last.invoked[1] \in last.raises
    /\ last.status = "ok"
    /\ last.servedBy = last.invoked[2]

\* C9: update returns normally exactly when some target answered true; when
\* targets answered and every answer is false it fails with "not found in any
\* datasource"; with no source available it fails.
C9_UpdateOutcome ==
    last.op = "update" =>
        /\ (last.status = "ok") <=> anySuccess(last.results)
        /\ (last.results # <<>> /\ ~anySuccess(last.results)) =>
               last.err = "not found in any datasource"
        /\ getAvailableDataSources = <<>> => last.status = "error"

\* C10: exists never raises, whatever the entity kind; with no source
\* available it answers false.
C10_ExistsNeverRaises ==
    last.op = "exists" =>
        /\ last.status = "ok"
        /\ getAvailableDataSources = <<>> => ~last.flag

\* C11: executeRead raises exactly when no source is available or every
\* available source's invocation raised; in the second case every available
\* source was invoked exactly once, in order, and the aggregated error holds
\* one entry with the name and the message of each of them.
C11_ExecuteReadErrors ==
    UsesExecuteRead =>
        LET avail == getAvailableDataSources IN
        /\ (last.routed = "error") <=>
               (\/ avail = <<>>
                \/ \A i \in 1..Len(avail) : avail[i] \in RouterRaises)
        /\ avail = <<>> =>
               /\ last.routedErr = "No available datasources for read operation"
               /\ last.invoked = <<>>
        /\ (last.routed = "error" /\ avail # <<>>) =>
               /\ last.routedErr = "All datasources failed"
               /\ last.invoked = avail
               /\ Len(last.routedErrors) = Len(avail)
               /\ \A i \in 1..Len(avail) :
                      /\ last.routedErrors[i].name = dsName[avail[i]]
                      /\ last.routedErrors[i].message = What(avail[i])

\* a read that failed on two available sources
C11_Witness ==
    /\ last.op = "findById"
    /\ last.routed = "error"
    /\ Len(last.invoked) = 2
    /\ Len(last.routedErrors) = 2

\* the request of the call passed validation
Valid == ucPc # "Idle" /\ validateRequest(request) = ""

\* every attempt so far has ended by raising a failure of the given kind
AllRaised(outcome) ==
    /\ invocations # <<>>
    /\ \A i \in 1..Len(invocations) : invocations[i] = outcome

\* C12: when every attempt raises a repository failure (or an unrecognized
\* one), executeWithRetry runs the operation maxRetries+1 times with one sleep
\* between consecutive attempts and answers success=false, REPOSITORY_ERROR
\* (SYSTEM_ERROR), retryAttempt = maxRetries; an attempt that returns ends the
\* call with success and no attempt follows it.
C12_RetryUntilExhausted ==
    /\ \A outcome \in {"repository", "unknown"} :
           (ucPc = "Done" /\ ~response.timedOut /\ AllRaised(outcome)) =>
               /\ Len(invocations) = actualConfig.maxRetries + 1
               /\ sleeps = actualConfig.maxRetries
               /\ ~response.success
               /\ response.category = CategoryOf(outcome)
               /\ response.retryAttempt = actualConfig.maxRetries
    /\ invocations # <<>> => sleeps = Len(invocations) - 1
    /\ \A i \in 1..Len(invocations) :
           invocations[i] = "ok" =>
               /\ i = Len(invocations)
               /\ (ucPc = "Done" /\ ~response.timedOut) => response.success

\* three failed attempts under maxRetries = 2
C12_Witness ==
    /\ ucPc = "Done"
    /\ AllRaised("repository")
    /\ actualConfig.maxRetries = 2
    /\ Len(invocations) = 3
    /\ sleeps = 2
    /\ response.category = "REPOSITORY_ERROR"

\* C13: an attempt that raises a validation or business-rule failure is the
\* last attempt of the call, and the response carries VALIDATION_ERROR or
\* BUSINESS_RULE_ERROR; when the first attempt raises it, the operation has
\* run exactly once.
C13_NoRetryOfRuleFailures ==
    \A i \in 1..Len(invocations) :
        invocations[i] \in {"validation", "businessRule"} =>
            /\ i = Len(invocations)
            /\ ucPc # "SleepFor"
            /\ (ucPc = "Done" /\ ~response.timedOut) =>
                   /\ ~response.success
                   /\ response.category = CategoryOf(invocations[i])
                   /\ response.retryAttempt = 0

\* a business-rule failure on the first attempt although retries remain
C13_Witness ==
    /\ ucPc = "Done"
    /\ invocations = <<"businessRule">>
    /\ actualConfig.maxRetries > 0
    /\ response.category = "BUSINESS_RULE_ERROR"

\* an empty or over-long name, a negative timeout, maxRetries or retryDelay
BadRequest(req) ==
    \/ req.nameLen = 0
    \/ req.nameLen > MaxNameLength
    \/ req.config.timeout < 0
    \/ req.config.maxRetries < 0
    \/ req.config.retryDelay < 0

\* C14: a request that fails validation is answered at once with
\* VALIDATION_ERROR and retryAttempt 0; the operation is never started and the
\* repository holds what it held before.
C14_ValidationFailsFast ==
    (ucPc # "Idle" /\ BadRequest(request)) =>
        /\ ucPc = "Done"
        /\ ~response.success
        /\ response.category = "VALIDATION_ERROR"
        /\ response.retryAttempt = 0
        /\ invocations = <<>>
        /\ task = "none"
        /\ sleeps = 0
        /\ projects = 0

\* a request with a good name and a negative maxRetries
C14_Witness ==
    /\ ucPc = "Done"
    /\ request.nameLen = 1
    /\ request.descLen = 0
    /\ request.config.timeout > 0
    /\ request.config.maxRetries < 0
    /\ response.category = "VALIDATION_ERROR"

\* C15: once an attempt has exceeded the timeout the call starts no further
\* attempt and does not sleep: its next move is to return a response with
\* category TIMEOUT_ERROR and timedOut = true, also when retries remain.
C15_TimeoutEndsCall ==
    [][ucPc = "Unwind" =>
          \/ /\ ucPc' = "Unwind"
             /\ Len(invocations') = Len(invocations)
             /\ sleeps' = sleeps
          \/ /\ ucPc' = "Done"
             /\ ~response'.success
             /\ response'.category = "TIMEOUT_ERROR"
             /\ response'.timedOut
             /\ invocations' = invocations
             /\ sleeps' = sleeps]_vars

\* a timeout on the first attempt of a call that had retries left
C15_Witness ==
    /\ ucPc = "Done"
    /\ response.timedOut
    /\ response.category = "TIMEOUT_ERROR"
    /\ Len(invocations) = 1
    /\ actualConfig.maxRetries > 0

\* C16: after the wait has timed out the calling thread does not wait for the
\* background task: it is never held back while the operation is still
\* running, so the response can precede the operation's write.
C16_TimeoutDoesNotWait ==
    ~(ucPc = "Unwind" /\ task = "running")

\* C17: a valid request that leaves its OperationConfig untouched is executed
\* with the configuration the use case was constructed with.
C17_ConstructorDefaultApplies ==
    (Valid /\ request.config = BuiltInConfig) => actualConfig = defaultConfig

\* C18: on every data source the three request counters never decrease, each
\* call adds at most one to totalRequests and then exactly one to either
\* successfulRequests or failedRequests, so that successfulRequests +
\* failedRequests = totalRequests after every call.
C18_MetricsBalance ==
    [][\A b \in Backends :
          LET dt == metrics'[b].totalRequests - metrics[b].totalRequests
              ds == metrics'[b].successfulRequests - metrics[b].successfulRequests
              df == metrics'[b].failedRequests - metrics[b].failedRequests
          IN  /\ dt \in {0, 1}
              /\ ds \in {0, 1}
              /\ df \in {0, 1}
              /\ ds + df = dt
              /\ metrics'[b].successfulRequests + metrics'[b].failedRequests
                     = metrics'[b].totalRequests]_vars

\* a data source that has counted a failed and a successful request
C18_Witness ==
    \E b \in Backends :
        /\ metrics[b].failedRequests > 0
        /\ metrics[b].successfulRequests > 0
        /\ last.op = "update"

\* C19: after every sequence of addDataSource and removeDataSource calls
\* getAllDataSources returns exactly the data sources registered at that
\* moment, in the order they were added.
C19_AllDataSourcesAreRegistered ==
    getAllDataSources = registered

\* positions of the entries of srcs bearing the name
Matches(srcs, name) == {i \in 1..Len(srcs) : dsName[srcs[i]] = name}

\* srcs without its i-th entry
RemoveAt(srcs, i) == SubSeq(srcs, 1, i - 1) \o SubSeq(srcs, i + 1, Len(srcs))

\* C20: on the multi-source router removeDataSource(name) removes the first
\* entry bearing the name and nothing else and returns true, also when several
\* entries bear it; when no entry bears the name it returns false and the list
\* is unchanged.
C20_RemoveFirstMatchOnly ==
    (routerImpl = "multi" /\ last.op = "removeDataSource") =>
        LET m == Matches(last.before, last.name) IN
        IF m = {}
        THEN ~last.ret /\ dataSources = last.before
        ELSE /\ last.ret
             /\ dataSources = RemoveAt(last.before,
                                       CHOOSE i \in m : \A j \in m : i <= j)

\* C21: with either router implementation getAvailableDataSources returns the
\* registered data sources whose isAvailable() is true, in registration order,
\* and executeRead and executeWrite invoke the operation only on data sources
\* that report themselves available.
C21_OnlyAvailableSources ==
    /\ RouterGetAvailableDataSources
           = SeqFilter(getAllDataSources, {b \in Backends : available[b]})
    /\ last.op \in {"executeRead", "executeWrite"} =>
           \A i \in 1..Len(last.invoked) : available[last.invoked[i]]

\* C22: the priority strategy's selectForRead returns null for the empty list
\* and otherwise a source of the list whose priority no source of the list
\* exceeds, namely the first such source in list order.
C22_PriorityRead ==
    (last.op = "selectForRead" /\ last.strategy = "priority") =>
        LET srcs == last.srcs IN
        IF srcs = <<>> THEN last.ret = NullDs
        ELSE \E i \in 1..Len(srcs) :
                 /\ last.ret = srcs[i]
                 /\ \A j \in 1..Len(srcs) : dsPriority[srcs[j]] <= dsPriority[srcs[i]]
                 /\ \A j \in 1..(i - 1) : dsPriority[srcs[j]] < dsPriority[srcs[i]]

\* two sources of equal priority: the first of the list is returned
C22_Witness ==
    /\ last.op = "selectForRead"
    /\ last.strategy = "priority"
    /\ Len(last.srcs) = 2
    /\ dsPriority[last.srcs[1]] = dsPriority[last.srcs[2]]
    /\ last.ret = last.srcs[1]

\* C23: the cache-first strategy's selectForRead returns null for the empty
\* list, otherwise the first source of the list whose type is a cache type,
\* wherever cache and other sources stand in the list, and the first source
\* of the list when none has a cache type.
C23_CacheFirstRead ==
    (last.op = "selectForRead" /\ last.strategy = "cacheFirst") =>
        LET srcs == last.srcs
            caches == {i \in 1..Len(srcs) : dsType[srcs[i]] \in cacheTypes}
        IN  IF srcs = <<>> THEN last.ret = NullDs
            ELSE IF caches = {} THEN last.ret = srcs[1]
            ELSE \E i \in caches :
                     /\ last.ret = srcs[i]
                     /\ \A j \in caches : i <= j

\* a cache standing behind a database in the list is returned
C23_Witness ==
    /\ last.op = "selectForRead"
    /\ last.strategy = "cacheFirst"
    /\ Len(last.srcs) = 2
    /\ dsType[last.srcs[1]] = "Database"
    /\ dsType[last.srcs[2]] = "Memory"
    /\ last.ret = last.srcs[2]

\* C24: the cache-first strategy's selectForWrite returns the whole list when
\* writeThroughEnabled is true and the sources whose type is no cache type, in
\* list order, when it is false; the priority strategy's selectForWrite
\* returns the whole list.
C24_SelectForWrite ==
    last.op = "selectForWrite" =>
        IF last.strategy = "cacheFirst" /\ ~writeThroughEnabled
        THEN /\ Range(last.ret) = {b \in Range(last.srcs) : dsType[b] \notin cacheTypes}
             /\ \A i, j \in 1..Len(last.ret) :
                    i < j => \E k, l \in 1..Len(last.srcs) :
                                 /\ k < l
                                 /\ last.srcs[k] = last.ret[i]
                                 /\ last.srcs[l] = last.ret[j]
        ELSE last.ret = last.srcs

\* write-through off: of a cache and a database only the database is a target
C24_Witness ==
    /\ last.op = "selectForWrite"
    /\ last.strategy = "cacheFirst"
    /\ ~writeThroughEnabled
    /\ Len(last.srcs) = 2
    /\ dsType[last.srcs[1]] = "Cache"
    /\ last.ret = <<last.srcs[2]>>

\* the backends whose invocation raised during the call observed in `last`
FailedBackends == Range(last.invoked) \cap RouterRaises

\* the backend names the raised error carries: the "[name: message]" entries
\* of the router's error, which reach the caller only when the router raised
NamedInError ==
    IF last.routed = "error"
    THEN {last.routedErrors[i].name : i \in 1..Len(last.routedErrors)}
    ELSE {}

\* C25: an error raised by save, findById, findAll, update or deleteById names
\* the repository method that failed and the name of every backend whose
\* invocation failed during the call.
C25_ErrorsNameMethodAndBackends ==
    (last.op \in {"save", "findById", "findAll", "update", "deleteById"}
        /\ last.status = "error") =>
        /\ last.method = RepositoryName \o "::" \o last.op
        /\ \A b \in FailedBackends : dsName[b] \in NamedInError

\* C26: MoveFolder answers a request whose new parent folder is the folder
\* being moved with a validation error and changes no folder, and no folder
\* is its own parent or lists itself among its subfolders.
C26_NoMoveIntoItself ==
    /\ (moveResponse.op = "MoveFolder"
           /\ moveResponse.id \in FolderIds
           /\ moveResponse.newParentFolderId = moveResponse.id) =>
           /\ ~moveResponse.success
           /\ moveResponse.errorMessage
                  = MoveFolderValidateRequest(
                        [folderId |-> moveResponse.id,
                         newParentProjectId |-> moveResponse.newParentProjectId,
                         newParentFolderId |-> moveResponse.newParentFolderId])
           /\ moveResponse.errorMessage # ""
           /\ ~moveResponse.changed
    /\ \A f \in FolderIds :
           /\ folderRepository[f].parentFolderId # f
           /\ f \notin Range(folderRepository[f].subfolderIds)

\* C30: MoveNote is all-or-nothing: after a success the note's parent is the
\* target folder, the target folder lists the note and the old folder no
\* longer does; after a failure the note and the folders are as they were;
\* a move to the folder the note is in succeeds and changes nothing.
C30_MoveNoteAllOrNothing ==
    moveResponse.op = "MoveNote" =>
        LET note == moveResponse.id
            old == moveResponse.oldParentFolderId
            target == moveResponse.newParentFolderId
        IN  /\ moveResponse.success =>
                /\ noteRepository[note].parentFolderId = target
                /\ note \in Range(folderRepository[target].noteIds)
                /\ (old \in FolderIds /\ old # target) =>
                       note \notin Range(folderRepository[old].noteIds)
            /\ ~moveResponse.success => ~moveResponse.changed
            /\ (note \in NoteIds /\ old = target) =>
                   moveResponse.success /\ ~moveResponse.changed

\* C27: at most one attempt of the wrapped operation runs at any moment:
\* every attempt but the latest has finished, and every attempt after the
\* first was started after a sleep_for(retryDelay) of its own had returned.
C27_AttemptsNeverOverlap ==
    /\ \A i \in 1..(Len(invocations) - 1) : invocations[i] # "running"
    /\ (task = "running") =>
           (invocations # <<>> /\ invocations[Len(invocations)] = "running")
    /\ invocations # <<>> => sleeps = Len(invocations) - 1

\* a retry is running after the first attempt failed and the sleep returned
C27_Witness ==
    /\ Len(invocations) = 2
    /\ invocations[1] = "repository"
    /\ invocations[2] = "running"
    /\ task = "running"
    /\ sleeps = 1

\* the write observed in `last'` took effect on at least one target
Applied ==
    IF last'.op = "update" THEN anySuccess(last'.results)
    ELSE last'.results # <<>>

\* C28: a save, update or deleteById in which some targets raise and at least
\* one takes the write reports success; the targets whose invocation returned
\* hold the effect of the write, every other source holds what it held
\* before, and nothing is undone.
C28_NoRollback ==
    [][LET invoked == Range(last'.invoked)
           raised == invoked \cap last'.raises
           returned == {last'.results[i].ds : i \in 1..Len(last'.results)}
       IN  (last'.op \in {"save", "update", "deleteById"}
               /\ raised # {} /\ Applied) =>
               /\ last'.status = "ok"
               /\ returned = invoked \ raised
               /\ \A b \in Backends \ returned : storage'[b] = storage[b]
               /\ \E v \in Values : \A b \in returned :
                      storage'[b] =
                         [storage[b] EXCEPT ![last'.id] =
                             IF last'.op = "save" THEN v
                             ELSE IF last'.op = "update"
                             THEN (IF @ = NoValue THEN NoValue ELSE v)
                             ELSE NoValue]
      ]_vars

\* a save that one target raised on and another took: the two now differ
C28_Witness ==
    /\ last.op = "save"
    /\ last.status = "ok"
    /\ \E b \in Range(last.invoked) \cap last.raises :
           \E c \in {last.results[i].ds : i \in 1..Len(last.results)} :
               /\ storage[c][last.id] # NoValue
               /\ storage[b][last.id] # storage[c][last.id]

\* C29: executeWithRetry reports progress once per attempt: the i-th report
\* carries currentStep i and totalSteps maxRetries + 1, there are as many
\* reports as attempts started, and no currentStep exceeds its totalSteps.
C29_ProgressOncePerAttempt ==
    /\ Len(progressReports) = Len(invocations)
    /\ \A i \in 1..Len(progressReports) :
           /\ progressReports[i].currentStep = i
           /\ progressReports[i].totalSteps = actualConfig.maxRetries + 1
           /\ progressReports[i].currentStep <= progressReports[i].totalSteps

====
